---- MODULE Spec2Model ----
(***************************************************************************)
(* Model of package ov (audio/ov/vorbisfile.go): the Go binding of a       *)
(* subset of libvorbisfile, with its dynamic loader flag, the File handle  *)
(* that wraps a C allocated OggVorbis_File, and the error mapping.         *)
(*                                                                         *)
(* The native library is a black box: every native function returns a     *)
(* value chosen nondeterministically from a sample of C ints.  C memory is *)
(* a sequence of allocations, each identified by its index (an allocation  *)
(* identity, never reused).  One action is one exported function, whole;   *)
(* the native calls it makes, in order, are recorded in `calls`.           *)
(***************************************************************************)
EXTENDS Integers, Sequences, FiniteSets, TLC

\* ------------------------------------------------------------ bounds
MaxAllocs == 4          \* C allocations made over a run
MaxFiles == 2           \* File values existing over a run
MaxThreads == 3         \* goroutines calling Load concurrently

\* ------------------------------------------------------------ constants
NULL == 0               \* Go nil / C NULL pointer

\* libvorbisfile error codes named by the package constants
Eread == -128
Efault == -129
Eimpl == -130
Einval == -131
EnotVorbis == -132
EbadHeader == -133
Eversion == -134
EnotAudio == -135
EbadPacket == -136
EbadLink == -137
EnoSeek == -138

ErrorCodes ==
  { Eread, Efault, Eimpl, Einval, EnotVorbis, EbadHeader, Eversion,
    EnotAudio, EbadPacket, EbadLink, EnoSeek }

\* var errCodes = map[C.int]string{...}; a Go map lookup of an absent key
\* yields the zero value "".
errCodes(c) ==
  CASE c = Eread      -> "Eread"
    [] c = Efault     -> "Efault"
    [] c = Eimpl      -> "Eimpl"
    [] c = Einval     -> "Einval"
    [] c = EnotVorbis -> "EnotVorbis"
    [] c = Eversion   -> "Eversion"
    [] c = EnotAudio  -> "EnotAudio"
    [] c = EbadPacket -> "EbadPacket"
    [] c = EbadLink   -> "EbadLink"
    [] c = EnoSeek    -> "EnoSeek"
    [] OTHER          -> ""

\* ------------------------------------------------------------ native side
\* A sample of the C int values a native function may return: success,
\* positive values, and negative values of each kind the package tells
\* apart: codes that errCodes names (Eread, EnoSeek), a named constant that
\* errCodes lacks (EbadHeader), and a value that is no constant at all.
CInt == {0, 1, -3, Eread, EbadHeader, EnoSeek}

LoadRets == {0, 1}              \* C.vorbisfile_load()
FopenRets == CInt \ {1}         \* C.ov_fopen: 0 or negative
ClearRets == CInt               \* C.ov_clear
ReadRets == CInt                \* C.ov_read: bytes read or negative
BitStreams == {0, 1}            \* *bitstream written by C.ov_read
SeekableRets == {0, 1}          \* C.ov_seekable
SeekRets == CInt                \* C.ov_pcm_seek
TotalRets == CInt               \* C.ov_pcm_total, C.ov_time_total, C.ov_time_tell

\* The caller's VorbisInfo, and the vorbis_info records C.ov_info may return.
ZeroInfo ==
  [Version |-> 0, Channels |-> 0, Rate |-> 0, BitrateUpper |-> 0,
   BitrateNominal |-> 0, BitrateLower |-> 0, BitrateWindow |-> 0]

NativeInfos ==
  { [version |-> 1, channels |-> 2, rate |-> 3, bitrate_upper |-> 4,
     bitrate_nominal |-> 5, bitrate_lower |-> 6, bitrate_window |-> 7],
    [version |-> 11, channels |-> 12, rate |-> 13, bitrate_upper |-> 14,
     bitrate_nominal |-> 15, bitrate_lower |-> 16, bitrate_window |-> 17] }

VARIABLES
  loaded,          \* var loaded
  resolverOk,      \* number of C.vorbisfile_load() invocations that succeeded
  heap,            \* C heap: sequence of allocations [kind, live, frees, seekable]
  files,           \* File values: files[h] is File.vf of handle h (NULL or allocation)
  hstate,          \* lifecycle of handle h: "Unopened", "Open", "Closed"
  info,            \* the caller's VorbisInfo
  op,              \* last call: [name, h]
  calls,           \* native calls made by the last call, in order
  result,          \* what the last call returned
  alive,           \* FALSE once the process died inside a native call
  pc               \* per goroutine calling Load concurrently: its place in Load

vars == <<loaded, resolverOk, heap, files, hstate, info, op, calls, result, alive, pc>>

Threads == 1..MaxThreads

\* ------------------------------------------------------------ helpers
\* A native call: its function, the reference passed, the value returned,
\* and the value it wrote through an out parameter (0 when it has none).
EvOut(fn, arg, ret, out) == [fn |-> fn, arg |-> arg, ret |-> ret, out |-> out]

Ev(fn, arg, ret) == EvOut(fn, arg, ret, 0)

Res(kind, n, bs, code, from) ==
  [kind |-> kind, n |-> n, bs |-> bs, code |-> code, from |-> from]

NoRes == Res("none", 0, 0, "", "")
Ok(n, bs) == Res("ok", n, bs, "", "")
Err(code, from) == Res("err", 0, 0, code, from)
PanicRes == Res("panic", 0, 0, "", "libvorbisfile shared library/dll was not loaded")
CrashRes == Res("crash", 0, 0, "", "")

Handles == 1..Len(files)

\* A pointer the native library may dereference: a live allocation.
PtrValid(p) == p # NULL /\ p \in 1..Len(heap) /\ heap[p].live

\* C.malloc / C.CString: a new allocation, appended to the heap.
Alloc(hp, kind) ==
  Append(hp, [kind |-> kind, live |-> TRUE, frees |-> 0, seekable |-> FALSE])

\* C.free(p): a no-op on NULL, otherwise releases p (counting the release).
Free(hp, p) ==
  IF p = NULL THEN hp
  ELSE [hp EXCEPT ![p].live = FALSE, ![p].frees = @ + 1]

\* A guard that lets every caller through.
checkLoadedOff == TRUE

\* func checkLoaded(): TRUE when the guard lets the caller continue.
checkLoaded == loaded

\* The guard's panic: nothing but the record of the call changes.
Panics(name, h) ==
  /\ ~checkLoaded
  /\ op' = [name |-> name, h |-> h]
  /\ calls' = <<>>
  /\ result' = PanicRes
  /\ UNCHANGED <<loaded, resolverOk, heap, files, hstate, info, alive>>

\* A native call given a pointer that is not a live allocation is undefined
\* behaviour: besides returning any value, it may kill the process.
Crashes(name, h, fn) ==
  /\ checkLoaded
  /\ ~PtrValid(files[h])
  /\ op' = [name |-> name, h |-> h]
  /\ calls' = <<Ev(fn, files[h], 0)>>
  /\ result' = CrashRes
  /\ alive' = FALSE
  /\ UNCHANGED <<loaded, resolverOk, heap, files, hstate, info>>

\* ------------------------------------------------------------ state
Init ==
  /\ loaded = FALSE
  /\ resolverOk = 0
  /\ heap = <<>>
  /\ files = <<>>
  /\ hstate = <<>>
  /\ info = ZeroInfo
  /\ op = [name |-> "none", h |-> 0]
  /\ calls = <<>>
  /\ result = NoRes
  /\ alive = TRUE
  /\ pc = [t \in Threads |-> [at |-> "idle", ret |-> "none", wrote |-> FALSE, late |-> FALSE]]

\* A caller's own zero File value (type File is exported): vf is nil.
NewFile ==
  /\ alive
  /\ UNCHANGED pc
  /\ Len(files) < MaxFiles
  /\ files' = Append(files, NULL)
  /\ hstate' = Append(hstate, "Unopened")
  /\ op' = [name |-> "NewFile", h |-> Len(files) + 1]
  /\ calls' = <<>>
  /\ result' = NoRes
  /\ UNCHANGED <<loaded, resolverOk, heap, info, alive>>

\* Load without the early return of an already loaded library.
LoadNoCache ==
  /\ alive
  /\ UNCHANGED pc
  /\ op' = [name |-> "Load", h |-> 0]
  /\ \E cres \in LoadRets :
       /\ calls' = <<Ev("vorbisfile_load", NULL, cres)>>
       /\ IF cres = 0
            THEN /\ loaded' = TRUE
                 /\ resolverOk' = resolverOk + (IF loaded THEN 0 ELSE 1)
                 /\ result' = Ok(0, 0)
            ELSE /\ UNCHANGED <<loaded, resolverOk>>
                 /\ result' = Err("", "Error loading libvorbisfile shared library/dll")
  /\ UNCHANGED <<heap, files, hstate, info, alive>>

\* Load that sets the flag before looking at the resolver's answer.
LoadLatch ==
  /\ alive
  /\ UNCHANGED pc
  /\ op' = [name |-> "Load", h |-> 0]
  /\ \/ /\ loaded
        /\ calls' = <<>>
        /\ result' = Ok(0, 0)
        /\ UNCHANGED <<loaded, resolverOk>>
     \/ /\ ~loaded
        /\ \E cres \in LoadRets :
             /\ calls' = <<Ev("vorbisfile_load", NULL, cres)>>
             /\ loaded' = TRUE
             /\ IF cres = 0
                  THEN /\ resolverOk' = resolverOk + 1
                       /\ result' = Ok(0, 0)
                  ELSE /\ UNCHANGED resolverOk
                       /\ result' = Err("", "Error loading libvorbisfile shared library/dll")
  /\ UNCHANGED <<heap, files, hstate, info, alive>>

\* Load that always asks the resolver and stores its verdict in the flag.
LoadReassign ==
  /\ alive
  /\ UNCHANGED pc
  /\ op' = [name |-> "Load", h |-> 0]
  /\ \E cres \in LoadRets :
       /\ calls' = <<Ev("vorbisfile_load", NULL, cres)>>
       /\ loaded' = (cres = 0)
       /\ resolverOk' = IF cres = 0 /\ ~loaded THEN 1 ELSE resolverOk
       /\ result' = IF cres = 0 THEN Ok(0, 0)
                    ELSE Err("", "Error loading libvorbisfile shared library/dll")
  /\ UNCHANGED <<heap, files, hstate, info, alive>>

\* func Load() error
Load ==
  /\ alive
  /\ UNCHANGED pc
  /\ op' = [name |-> "Load", h |-> 0]
  /\ \/ /\ loaded
        /\ calls' = <<>>
        /\ result' = Ok(0, 0)
        /\ UNCHANGED <<loaded, resolverOk>>
     \/ /\ ~loaded
        /\ \E cres \in LoadRets :
             /\ calls' = <<Ev("vorbisfile_load", NULL, cres)>>
             /\ IF cres = 0
                  THEN /\ loaded' = TRUE
                       /\ resolverOk' = resolverOk + 1
                       /\ result' = Ok(0, 0)
                  ELSE /\ UNCHANGED <<loaded, resolverOk>>
                       /\ result' = Err("", "Error loading libvorbisfile shared library/dll")
  /\ UNCHANGED <<heap, files, hstate, info, alive>>

\* func IsLoaded() bool
IsLoaded ==
  /\ alive
  /\ UNCHANGED pc
  /\ op' = [name |-> "IsLoaded", h |-> 0]
  /\ calls' = <<>>
  /\ result' = Ok(IF loaded THEN 1 ELSE 0, 0)
  /\ UNCHANGED <<loaded, resolverOk, heap, files, hstate, info, alive>>

\* func Fopen(path string) (*File, error)
\* The path is only handed to the native library, whose answer is free.
Fopen ==
  /\ alive
  /\ UNCHANGED pc
  /\ \/ Panics("Fopen", 0)
     \/ /\ checkLoaded
        /\ Len(heap) + 2 <= MaxAllocs
        /\ \E cerr \in FopenRets :
           \E sk \in (IF cerr = 0 THEN BOOLEAN ELSE {FALSE}) :
             LET vf == Len(heap) + 1
                 cpath == Len(heap) + 2
                 h1 == Alloc(Alloc(heap, "vf"), "cstr")
                 h2 == [h1 EXCEPT ![vf].seekable = sk]
             IN /\ calls' = << Ev("malloc", NULL, vf), Ev("CString", NULL, cpath),
                               Ev("ov_fopen", vf, cerr), Ev("free", cpath, 0) >>
                /\ heap' = Free(h2, cpath)
                /\ IF cerr = 0
                     THEN /\ Len(files) < MaxFiles
                          /\ files' = Append(files, vf)
                          /\ hstate' = Append(hstate, "Open")
                          /\ op' = [name |-> "Fopen", h |-> Len(files) + 1]
                          /\ result' = Ok(Len(files) + 1, 0)
                     ELSE /\ UNCHANGED <<files, hstate>>
                          /\ op' = [name |-> "Fopen", h |-> 0]
                          /\ result' = Err(errCodes(cerr), "Fopen")
        /\ UNCHANGED <<loaded, resolverOk, info, alive>>

\* Clear that releases the allocation before the native teardown.
ClearFreeFirst(h) ==
  /\ alive
  /\ UNCHANGED pc
  /\ \/ Panics("Clear", h)
     \/ Crashes("Clear", h, "ov_clear")
     \/ /\ checkLoaded
        /\ op' = [name |-> "Clear", h |-> h]
        /\ \E cerr \in ClearRets :
             /\ calls' = <<Ev("free", files[h], 0), Ev("ov_clear", files[h], cerr)>>
             /\ heap' = Free(heap, files[h])
             /\ IF cerr = 0
                  THEN /\ files' = [files EXCEPT ![h] = NULL]
                       /\ hstate' = [hstate EXCEPT ![h] = IF @ = "Open" THEN "Closed" ELSE @]
                       /\ result' = Ok(0, 0)
                  ELSE /\ result' = Err(errCodes(cerr), "Clear")
                       /\ UNCHANGED <<files, hstate>>
        /\ UNCHANGED <<loaded, resolverOk, info, alive>>

\* Clear that releases the allocation and drops the reference whatever the
\* native teardown answers.
ClearAlwaysFrees(h) ==
  /\ alive
  /\ UNCHANGED pc
  /\ \/ Panics("Clear", h)
     \/ Crashes("Clear", h, "ov_clear")
     \/ /\ checkLoaded
        /\ op' = [name |-> "Clear", h |-> h]
        /\ \E cerr \in ClearRets :
             /\ calls' = <<Ev("ov_clear", files[h], cerr), Ev("free", files[h], 0)>>
             /\ heap' = Free(heap, files[h])
             /\ files' = [files EXCEPT ![h] = NULL]
             /\ IF cerr = 0
                  THEN /\ hstate' = [hstate EXCEPT ![h] = IF @ = "Open" THEN "Closed" ELSE @]
                       /\ result' = Ok(0, 0)
                  ELSE /\ result' = Err(errCodes(cerr), "Clear")
                       /\ UNCHANGED hstate
        /\ UNCHANGED <<loaded, resolverOk, info, alive>>

\* Clear that forgets to reset the reference after releasing it.
ClearKeepsPtr(h) ==
  /\ alive
  /\ UNCHANGED pc
  /\ \/ Panics("Clear", h)
     \/ Crashes("Clear", h, "ov_clear")
     \/ /\ checkLoaded
        /\ op' = [name |-> "Clear", h |-> h]
        /\ \E cerr \in ClearRets :
             IF cerr = 0
               THEN /\ calls' = <<Ev("ov_clear", files[h], cerr), Ev("free", files[h], 0)>>
                    /\ heap' = Free(heap, files[h])
                    /\ hstate' = [hstate EXCEPT ![h] = IF @ = "Open" THEN "Closed" ELSE @]
                    /\ result' = Ok(0, 0)
                    /\ UNCHANGED files
               ELSE /\ calls' = <<Ev("ov_clear", files[h], cerr)>>
                    /\ result' = Err(errCodes(cerr), "Clear")
                    /\ UNCHANGED <<heap, files, hstate>>
        /\ UNCHANGED <<loaded, resolverOk, info, alive>>

\* Clear that resets the reference although the native teardown failed.
ClearNilsOnError(h) ==
  /\ alive
  /\ UNCHANGED pc
  /\ \/ Panics("Clear", h)
     \/ Crashes("Clear", h, "ov_clear")
     \/ /\ checkLoaded
        /\ op' = [name |-> "Clear", h |-> h]
        /\ \E cerr \in ClearRets :
             /\ files' = [files EXCEPT ![h] = NULL]
             /\ IF cerr = 0
                  THEN /\ calls' = <<Ev("ov_clear", files[h], cerr), Ev("free", files[h], 0)>>
                       /\ heap' = Free(heap, files[h])
                       /\ hstate' = [hstate EXCEPT ![h] = IF @ = "Open" THEN "Closed" ELSE @]
                       /\ result' = Ok(0, 0)
                  ELSE /\ calls' = <<Ev("ov_clear", files[h], cerr)>>
                       /\ result' = Err(errCodes(cerr), "Clear")
                       /\ UNCHANGED <<heap, hstate>>
        /\ UNCHANGED <<loaded, resolverOk, info, alive>>

\* Clear on a reference kept in one package-level variable: a successful
\* Clear resets the reference of every handle.
ClearShared(h) ==
  /\ alive
  /\ UNCHANGED pc
  /\ \/ Panics("Clear", h)
     \/ Crashes("Clear", h, "ov_clear")
     \/ /\ checkLoaded
        /\ op' = [name |-> "Clear", h |-> h]
        /\ \E cerr \in ClearRets :
             IF cerr = 0
               THEN /\ calls' = <<Ev("ov_clear", files[h], cerr), Ev("free", files[h], 0)>>
                    /\ heap' = Free(heap, files[h])
                    /\ files' = [g \in Handles |-> NULL]
                    /\ hstate' = [hstate EXCEPT ![h] = IF @ = "Open" THEN "Closed" ELSE @]
                    /\ result' = Ok(0, 0)
               ELSE /\ calls' = <<Ev("ov_clear", files[h], cerr)>>
                    /\ result' = Err(errCodes(cerr), "Clear")
                    /\ UNCHANGED <<heap, files, hstate>>
        /\ UNCHANGED <<loaded, resolverOk, info, alive>>

\* func Clear(f *File) error
Clear(h) ==
  /\ alive
  /\ UNCHANGED pc
  /\ \/ Panics("Clear", h)
     \/ Crashes("Clear", h, "ov_clear")
     \/ /\ checkLoaded
        /\ op' = [name |-> "Clear", h |-> h]
        /\ \E cerr \in ClearRets :
             IF cerr = 0
               THEN /\ calls' = <<Ev("ov_clear", files[h], cerr), Ev("free", files[h], 0)>>
                    /\ heap' = Free(heap, files[h])
                    /\ files' = [files EXCEPT ![h] = NULL]
                    /\ hstate' = [hstate EXCEPT ![h] = IF @ = "Open" THEN "Closed" ELSE @]
                    /\ result' = Ok(0, 0)
               ELSE /\ calls' = <<Ev("ov_clear", files[h], cerr)>>
                    /\ result' = Err(errCodes(cerr), "Clear")
                    /\ UNCHANGED <<heap, files, hstate>>
        /\ UNCHANGED <<loaded, resolverOk, info, alive>>

\* Read that takes a native result of 0 for a failure.
ReadZeroIsError(h) ==
  /\ alive
  /\ UNCHANGED pc
  /\ \/ Panics("Read", h)
     \/ Crashes("Read", h, "ov_read")
     \/ /\ checkLoaded
        /\ op' = [name |-> "Read", h |-> h]
        /\ \E cres \in ReadRets, bitstream \in BitStreams :
             /\ calls' = <<EvOut("ov_read", files[h], cres, bitstream)>>
             /\ result' = IF cres <= 0 THEN Err(errCodes(cres), "Read()")
                                       ELSE Ok(cres, bitstream)
        /\ UNCHANGED <<loaded, resolverOk, heap, files, hstate, info, alive>>

\* Read that calls the native read once more after a failure.
ReadRetry(h) ==
  /\ alive
  /\ UNCHANGED pc
  /\ \/ Panics("Read", h)
     \/ Crashes("Read", h, "ov_read")
     \/ /\ checkLoaded
        /\ op' = [name |-> "Read", h |-> h]
        /\ \E cres \in ReadRets, bitstream \in BitStreams :
             IF cres < 0
               THEN \E cres2 \in ReadRets :
                      /\ calls' = << EvOut("ov_read", files[h], cres, bitstream),
                                     EvOut("ov_read", files[h], cres2, bitstream) >>
                      /\ result' = IF cres2 < 0 THEN Err(errCodes(cres2), "Read()")
                                                ELSE Ok(cres2, bitstream)
               ELSE /\ calls' = <<EvOut("ov_read", files[h], cres, bitstream)>>
                    /\ result' = Ok(cres, bitstream)
        /\ UNCHANGED <<loaded, resolverOk, heap, files, hstate, info, alive>>

\* func Read(f *File, buffer unsafe.Pointer, length int, bigendianp bool,
\*           word int, sgned bool) (int, int, error)
\* buffer, length, bigendianp, word and sgned are only handed to the native
\* library, whose answer is free.
Read(h) ==
  /\ alive
  /\ UNCHANGED pc
  /\ \/ Panics("Read", h)
     \/ Crashes("Read", h, "ov_read")
     \/ /\ checkLoaded
        /\ op' = [name |-> "Read", h |-> h]
        /\ \E cres \in ReadRets, bitstream \in BitStreams :
             /\ calls' = <<EvOut("ov_read", files[h], cres, bitstream)>>
             /\ result' = IF cres < 0 THEN Err(errCodes(cres), "Read()")
                                      ELSE Ok(cres, bitstream)
        /\ UNCHANGED <<loaded, resolverOk, heap, files, hstate, info, alive>>

\* Info that clears the caller's VorbisInfo before asking the library.
InfoZeroesFirst(h) ==
  /\ alive
  /\ UNCHANGED pc
  /\ \/ Panics("Info", h)
     \/ Crashes("Info", h, "ov_info")
     \/ /\ checkLoaded
        /\ op' = [name |-> "Info", h |-> h]
        /\ \/ /\ calls' = <<Ev("ov_info", files[h], 0)>>
              /\ result' = Err("", "Error returned from 'ov_info'")
              /\ info' = ZeroInfo
           \/ \E vi \in NativeInfos :
                /\ calls' = <<Ev("ov_info", files[h], vi.version)>>
                /\ info' = [Version |-> vi.version, Channels |-> vi.channels,
                            Rate |-> vi.rate, BitrateUpper |-> vi.bitrate_upper,
                            BitrateNominal |-> vi.bitrate_nominal,
                            BitrateLower |-> vi.bitrate_lower,
                            BitrateWindow |-> vi.bitrate_window]
                /\ result' = Ok(0, 0)
        /\ UNCHANGED <<loaded, resolverOk, heap, files, hstate, alive>>

\* func Info(f *File, link int, info *VorbisInfo) error
Info(h) ==
  /\ alive
  /\ UNCHANGED pc
  /\ \/ Panics("Info", h)
     \/ Crashes("Info", h, "ov_info")
     \/ /\ checkLoaded
        /\ op' = [name |-> "Info", h |-> h]
        /\ \/ /\ calls' = <<Ev("ov_info", files[h], 0)>>       \* vi == nil
              /\ result' = Err("", "Error returned from 'ov_info'")
              /\ UNCHANGED info
           \/ \E vi \in NativeInfos :
                /\ calls' = <<Ev("ov_info", files[h], vi.version)>>
                /\ info' = [Version |-> vi.version, Channels |-> vi.channels,
                            Rate |-> vi.rate, BitrateUpper |-> vi.bitrate_upper,
                            BitrateNominal |-> vi.bitrate_nominal,
                            BitrateLower |-> vi.bitrate_lower,
                            BitrateWindow |-> vi.bitrate_window]
                /\ result' = Ok(0, 0)
        /\ UNCHANGED <<loaded, resolverOk, heap, files, hstate, alive>>

\* C.ov_seekable on an open stream reports the stream's seekable flag.
NativeSeekable(p) ==
  IF PtrValid(p) THEN {IF heap[p].seekable THEN 1 ELSE 0} ELSE SeekableRets

\* func Seekable(f *File) bool
Seekable(h) ==
  /\ alive
  /\ UNCHANGED pc
  /\ \/ Panics("Seekable", h)
     \/ Crashes("Seekable", h, "ov_seekable")
     \/ /\ checkLoaded
        /\ op' = [name |-> "Seekable", h |-> h]
        /\ \E cres \in NativeSeekable(files[h]) :
             /\ calls' = <<Ev("ov_seekable", files[h], cres)>>
             /\ result' = Ok(IF cres = 0 THEN 0 ELSE 1, 0)
        /\ UNCHANGED <<loaded, resolverOk, heap, files, hstate, info, alive>>

\* C.ov_pcm_seek fails with OV_ENOSEEK on a stream that is not seekable.
NativePcmSeek(p) ==
  IF PtrValid(p) /\ ~heap[p].seekable THEN {EnoSeek} ELSE SeekRets

\* PcmSeek that takes every non-negative native result for success.
PcmSeekNonNegative(h) ==
  /\ alive
  /\ UNCHANGED pc
  /\ \/ Panics("PcmSeek", h)
     \/ Crashes("PcmSeek", h, "ov_pcm_seek")
     \/ /\ checkLoaded
        /\ op' = [name |-> "PcmSeek", h |-> h]
        /\ \E cres \in NativePcmSeek(files[h]) :
             /\ calls' = <<Ev("ov_pcm_seek", files[h], cres)>>
             /\ result' = IF cres >= 0 THEN Ok(0, 0)
                                       ELSE Err(errCodes(cres), "'ov_pcm_seek()'")
        /\ UNCHANGED <<loaded, resolverOk, heap, files, hstate, info, alive>>

\* func PcmSeek(f *File, pos int64) error
PcmSeek(h) ==
  /\ alive
  /\ UNCHANGED pc
  /\ \/ Panics("PcmSeek", h)
     \/ Crashes("PcmSeek", h, "ov_pcm_seek")
     \/ /\ checkLoaded
        /\ op' = [name |-> "PcmSeek", h |-> h]
        /\ \E cres \in NativePcmSeek(files[h]) :
             /\ calls' = <<Ev("ov_pcm_seek", files[h], cres)>>
             /\ result' = IF cres = 0 THEN Ok(0, 0)
                                      ELSE Err(errCodes(cres), "'ov_pcm_seek()'")
        /\ UNCHANGED <<loaded, resolverOk, heap, files, hstate, info, alive>>

\* func PcmTotal(f *File, i int) (int64, error)
PcmTotal(h) ==
  /\ alive
  /\ UNCHANGED pc
  /\ \/ Panics("PcmTotal", h)
     \/ Crashes("PcmTotal", h, "ov_pcm_total")
     \/ /\ checkLoaded
        /\ op' = [name |-> "PcmTotal", h |-> h]
        /\ \E cres \in TotalRets :
             /\ calls' = <<Ev("ov_pcm_total", files[h], cres)>>
             /\ result' = IF cres < 0 THEN Err(errCodes(cres), "'ov_pcm_total()'")
                                      ELSE Ok(cres, 0)
        /\ UNCHANGED <<loaded, resolverOk, heap, files, hstate, info, alive>>

\* func TimeTotal(f *File, i int) (float64, error)
TimeTotal(h) ==
  /\ alive
  /\ UNCHANGED pc
  /\ \/ Panics("TimeTotal", h)
     \/ Crashes("TimeTotal", h, "ov_time_total")
     \/ /\ checkLoaded
        /\ op' = [name |-> "TimeTotal", h |-> h]
        /\ \E cres \in TotalRets :
             /\ calls' = <<Ev("ov_time_total", files[h], cres)>>
             /\ result' = IF cres < 0 THEN Err(errCodes(cres), "'ov_time_total()'")
                                      ELSE Ok(cres, 0)
        /\ UNCHANGED <<loaded, resolverOk, heap, files, hstate, info, alive>>

\* func TimeTell(f *File) (float64, error)
TimeTell(h) ==
  /\ alive
  /\ UNCHANGED pc
  /\ \/ Panics("TimeTell", h)
     \/ Crashes("TimeTell", h, "ov_time_tell")
     \/ /\ checkLoaded
        /\ op' = [name |-> "TimeTell", h |-> h]
        /\ \E cres \in TotalRets :
             /\ calls' = <<Ev("ov_time_tell", files[h], cres)>>
             /\ result' = IF cres < 0 THEN Err(errCodes(cres), "'ov_time_total()'")
                                      ELSE Ok(cres, 0)
        /\ UNCHANGED <<loaded, resolverOk, heap, files, hstate, info, alive>>

Next ==
  \/ NewFile
  \/ Load
  \/ IsLoaded
  \/ Fopen
  \/ \E h \in Handles :
       \/ Clear(h)
       \/ Read(h)
       \/ Info(h)
       \/ Seekable(h)
       \/ PcmSeek(h)
       \/ PcmTotal(h)
       \/ TimeTotal(h)
       \/ TimeTell(h)

Spec == Init /\ [][Next]_vars

\* ------------------------------------------------------------ concurrent Load
\* Load called from several goroutines, one step per access to shared state.
\* pc[t].at is the place of goroutine t in Load: "idle" (not in Load), "call"
\* (past the check of line 76, before C.vorbisfile_load()), "set" (the
\* resolver returned 0, before loaded = true).  pc[t].ret is what its last
\* Load returned, pc[t].wrote whether it has itself assigned loaded, and
\* pc[t].late whether it invoked the resolver after an invocation had
\* already succeeded.

\* The values an unsynchronised read of loaded may observe: the current one,
\* and the initial false unless the reader's own assignment precedes the read.
ReadLoaded(t) == {loaded} \cup (IF pc[t].wrote THEN {} ELSE {FALSE})

\* if loaded { return nil }
LoadCheck(t) ==
  /\ pc[t].at = "idle"
  /\ \E seen \in ReadLoaded(t) :
       pc' = [pc EXCEPT ![t].at = IF seen THEN "idle" ELSE "call",
                        ![t].ret = IF seen THEN "ok" ELSE "none"]
  /\ UNCHANGED <<loaded, resolverOk, heap, files, hstate, info, op, calls, result, alive>>

\* cres := C.vorbisfile_load(); on failure return the error
LoadResolve(t) ==
  /\ pc[t].at = "call"
  /\ \E cres \in LoadRets :
       /\ pc' = [pc EXCEPT ![t].at = IF cres = 0 THEN "set" ELSE "idle",
                           ![t].ret = IF cres = 0 THEN "none" ELSE "err",
                           ![t].late = @ \/ resolverOk > 0]
       /\ resolverOk' = resolverOk + (IF cres = 0 THEN 1 ELSE 0)
  /\ UNCHANGED <<loaded, heap, files, hstate, info, op, calls, result, alive>>

\* loaded = true; return nil
LoadSet(t) ==
  /\ pc[t].at = "set"
  /\ loaded' = TRUE
  /\ pc' = [pc EXCEPT ![t].at = "idle", ![t].ret = "ok", ![t].wrote = TRUE]
  /\ UNCHANGED <<resolverOk, heap, files, hstate, info, op, calls, result, alive>>

NextConc ==
  \E t \in Threads :
     \/ LoadCheck(t)
     \/ LoadResolve(t)
     \/ LoadSet(t)

SpecConc == Init /\ [][NextConc]_vars

\* ------------------------------------------------------------ properties
GuardedOps ==
  {"Fopen", "Clear", "Read", "Info", "Seekable", "PcmSeek", "PcmTotal",
   "TimeTotal", "TimeTell"}

\* The allocations a call made: the results of its malloc and CString events.
Allocated(cs) ==
  {cs[i].ret : i \in {j \in 1..Len(cs) : cs[j].fn \in {"malloc", "CString"}}}

\* C1: while the loaded flag is false, a call of Fopen, Clear, Read, Info,
\* Seekable, PcmSeek, PcmTotal, TimeTotal or TimeTell ends in the "not
\* loaded" panic, having made no allocation and no native call, and returns
\* no normal result.
C1_NotLoadedPanics ==
  (~loaded /\ op.name \in GuardedOps) =>
     /\ result = PanicRes
     /\ calls = <<>>

C1_Witness ==
  /\ ~loaded
  /\ op.name = "Read"
  /\ op.h \in Handles
  /\ result.kind = "panic"

\* C2: once the library is loaded, every Load returns success without
\* invoking the resolver and leaves the flag true; the resolver succeeds at
\* most once over a run, and the flag is true exactly when it has.
C2_LoadIdempotent ==
  /\ [](resolverOk <= 1 /\ (loaded <=> resolverOk = 1))
  /\ [][ (loaded /\ op'.name = "Load") =>
           /\ result' = Ok(0, 0)
           /\ calls' = <<>>
           /\ loaded'
           /\ resolverOk' = resolverOk ]_vars

C2_Witness ==
  /\ op.name = "Load"
  /\ calls = <<>>
  /\ result.kind = "ok"
  /\ loaded
  /\ resolverOk = 1

\* C3: a Load whose resolver invocation fails returns an error and leaves
\* the flag false; and every Load made while the flag is false invokes the
\* resolver (a failure is not latched).
C3_LoadFailureRetryable ==
  [][ /\ (op'.name = "Load" /\ calls' # <<>> /\ calls'[1].ret # 0) =>
           /\ result'.kind = "err"
           /\ ~loaded /\ ~loaded'
      /\ (~loaded /\ op'.name = "Load") =>
           /\ Len(calls') = 1
           /\ calls'[1].fn = "vorbisfile_load" ]_vars

C3_Witness ==
  /\ op.name = "Load"
  /\ result.kind = "err"
  /\ calls # <<>>
  /\ ~loaded

\* C4: the loaded flag starts false, and no call ever sets it back to false
\* once it is true.
C4_LoadedMonotonic ==
  /\ ~loaded
  /\ [][loaded => loaded']_vars

C4_Witness ==
  /\ loaded
  /\ op.name = "Clear"
  /\ result.kind = "err"

\* C5: after a Fopen whose native open failed, every allocation that call
\* made has been released.
C5_FailedFopenReleases ==
  (op.name = "Fopen" /\ result.kind = "err") =>
     \A a \in Allocated(calls) : ~heap[a].live

\* C6: a Clear whose native teardown returned 0 made exactly two native
\* calls, ov_clear and then free of the same reference, reset the handle's
\* reference to null and returned nil; and no Clear frees anything before
\* an ov_clear of it has returned 0.
C6_ClearTwoStep ==
  op.name = "Clear" =>
     /\ (calls # <<>> /\ calls[1].ret = 0 /\ result.kind # "crash") =>
           /\ result = Ok(0, 0)
           /\ Len(calls) = 2
           /\ calls[1].fn = "ov_clear"
           /\ calls[2] = Ev("free", calls[1].arg, 0)
           /\ files[op.h] = NULL
           /\ calls[1].arg # NULL => ~heap[calls[1].arg].live
     /\ \A i \in 1..Len(calls) :
           calls[i].fn = "free" =>
              \E j \in 1..(i - 1) : calls[j] = Ev("ov_clear", calls[i].arg, 0)

C6_Witness ==
  /\ op.name = "Clear"
  /\ result.kind = "ok"
  /\ Len(calls) = 2
  /\ calls[2].arg # NULL
  /\ heap[calls[2].arg].frees = 1

\* C7: a Clear whose native teardown returned nonzero returns an error,
\* frees nothing, and leaves the handle's reference and lifecycle state
\* unchanged (an Open handle stays Open with a non-null reference).
C7_ClearFailureFrame ==
  [][ (op'.name = "Clear" /\ calls' # <<>> /\ calls'[1].ret # 0) =>
        /\ result'.kind = "err"
        /\ \A i \in 1..Len(calls') : calls'[i].fn # "free"
        /\ heap' = heap
        /\ files' = files
        /\ hstate' = hstate
        /\ hstate[op'.h] = "Open" => files'[op'.h] # NULL ]_vars

C7_Witness ==
  /\ op.name = "Clear"
  /\ result.kind = "err"
  /\ hstate[op.h] = "Open"
  /\ files[op.h] # NULL
  /\ heap[files[op.h]].live

\* C8: no allocation is ever released twice.
C8_NoDoubleFree ==
  \A a \in 1..Len(heap) : heap[a].frees <= 1

C8_Witness ==
  /\ op.name = "Clear"
  /\ hstate[op.h] = "Closed"
  /\ result.kind = "ok"
  /\ calls[1].arg = NULL
  /\ \E a \in 1..Len(heap) : heap[a].kind = "vf" /\ heap[a].frees = 1

\* C9: for every handle returned by Fopen, the reference is non-null exactly
\* when the handle is Open; and a Closed handle stays Closed, its reference
\* null.
C9_RefIffOpen ==
  /\ [](\A h \in Handles :
          hstate[h] # "Unopened" => (files[h] # NULL <=> hstate[h] = "Open"))
  /\ [][ \A h \in Handles :
           hstate[h] = "Closed" => (hstate'[h] = "Closed" /\ files'[h] = NULL) ]_vars

C9_Witness ==
  /\ op.name = "Read"
  /\ hstate[op.h] = "Closed"
  /\ result.kind = "ok"
  /\ files[op.h] = NULL

\* C10: a Read, PcmSeek, Info or Clear on a handle that Clear has closed is
\* rejected: it makes no native call and does not report success.
C10_UseAfterClearRejected ==
  [][ (op'.name \in {"Read", "PcmSeek", "Info", "Clear"} /\ hstate[op'.h] = "Closed") =>
        /\ calls' = <<>>
        /\ result'.kind # "ok" ]_vars

\* The native function each exported function wraps.
NativeFn(name) ==
  CASE name = "Load"      -> "vorbisfile_load"
    [] name = "Fopen"     -> "ov_fopen"
    [] name = "Clear"     -> "ov_clear"
    [] name = "Read"      -> "ov_read"
    [] name = "Info"      -> "ov_info"
    [] name = "Seekable"  -> "ov_seekable"
    [] name = "PcmSeek"   -> "ov_pcm_seek"
    [] name = "PcmTotal"  -> "ov_pcm_total"
    [] name = "TimeTotal" -> "ov_time_total"
    [] name = "TimeTell"  -> "ov_time_tell"
    [] OTHER              -> "none"

\* The name of the package constant declared for code c.
ConstName(c) ==
  CASE c = Eread      -> "Eread"
    [] c = Efault     -> "Efault"
    [] c = Eimpl      -> "Eimpl"
    [] c = Einval     -> "Einval"
    [] c = EnotVorbis -> "EnotVorbis"
    [] c = EbadHeader -> "EbadHeader"
    [] c = Eversion   -> "Eversion"
    [] c = EnotAudio  -> "EnotAudio"
    [] c = EbadPacket -> "EbadPacket"
    [] c = EbadLink   -> "EbadLink"
    [] c = EnoSeek    -> "EnoSeek"

\* The invocations of its own native function the last call made.
OwnCalls == {i \in 1..Len(calls) : calls[i].fn = NativeFn(op.name)}

\* C11: whenever an operation builds its error from one of the eleven named
\* native codes, the name errCodes gives it is the name of the code's
\* constant: non-empty, and different from the name given to any other of
\* the eleven codes.
C11_ErrCodesNamesAll ==
  \A i \in OwnCalls :
     (result.kind = "err" /\ calls[i].ret \in ErrorCodes /\ op.name # "Info") =>
        /\ result.code = ConstName(calls[i].ret)
        /\ result.code # ""
        /\ \A d \in ErrorCodes \ {calls[i].ret} : errCodes(d) # result.code

\* C12: whenever the native function of Fopen, Clear, Read, PcmSeek or
\* PcmTotal returns a negative value, named or not, the call returns an
\* error and not success, and the error carries a non-empty code name (a
\* generic "unknown" would do).
C12_NegativeGivesNamedError ==
  \A i \in OwnCalls :
     ( /\ op.name \in {"Fopen", "Clear", "Read", "PcmSeek", "PcmTotal"}
       /\ calls[i].ret < 0
       /\ result.kind # "crash" ) =>
        /\ result.kind = "err"
        /\ result.code # ""

\* C13: a Read on an Open handle returns an error exactly when the native
\* result is negative, and then returns (0, 0, error); for a native result
\* n >= 0 it returns (n, the bitstream index the native call wrote, nil).
C13_ReadResult ==
  (op.name = "Read" /\ hstate[op.h] = "Open" /\ result.kind \notin {"panic", "crash"}) =>
     /\ Len(calls) = 1
     /\ (result.kind = "err") <=> (calls[1].ret < 0)
     /\ calls[1].ret < 0 => (result.n = 0 /\ result.bs = 0)
     /\ calls[1].ret >= 0 => result = Ok(calls[1].ret, calls[1].out)

C13_Witness ==
  /\ op.name = "Read"
  /\ hstate[op.h] = "Open"
  /\ calls[1].ret = 0
  /\ calls[1].out = 1
  /\ result = Ok(0, 1)

\* C14: with Load called from several goroutines, the resolver is invoked
\* successfully at most once, and no goroutine invokes the resolver after
\* an invocation has already succeeded.
C14_ConcurrentLoadOnce ==
  /\ resolverOk <= 1
  /\ \A t \in Threads : ~pc[t].late

HandleOps ==
  {"Clear", "Read", "Info", "Seekable", "PcmSeek", "PcmTotal", "TimeTotal", "TimeTell"}

\* C15: two handles obtained from separate Fopen calls never share an
\* allocation, and an operation on one handle leaves the reference, the
\* lifecycle state and the allocation of every other handle unchanged.
C15_HandlesIndependent ==
  /\ [](\A a, b \in Handles :
          (a # b /\ files[a] # NULL) => files[a] # files[b])
  /\ [][ op'.name \in HandleOps =>
           \A b \in Handles \ {op'.h} :
              /\ files'[b] = files[b]
              /\ hstate'[b] = hstate[b]
              /\ files[b] # NULL => heap'[files[b]] = heap[files[b]] ]_vars

C15_Witness ==
  /\ op.name = "Clear"
  /\ result.kind = "ok"
  /\ hstate[op.h] = "Closed"
  /\ \E b \in Handles \ {op.h} :
        /\ hstate[b] = "Open"
        /\ files[b] # NULL
        /\ heap[files[b]].live

\* C16: Seekable on an Open handle returns false exactly when its stream is
\* not seekable, and on such a handle PcmSeek returns the error made from
\* EnoSeek; and every PcmSeek returns nil exactly when the native seek
\* returned 0.
C16_PcmSeekResult ==
  /\ (op.name = "Seekable" /\ hstate[op.h] = "Open" /\ result.kind = "ok") =>
        (result.n = 0 <=> ~heap[files[op.h]].seekable)
  /\ (op.name = "PcmSeek" /\ result.kind \notin {"panic", "crash"}) =>
        /\ Len(calls) = 1
        /\ (result = Ok(0, 0)) <=> (calls[1].ret = 0)
        /\ calls[1].ret # 0 => result.kind = "err"
        /\ (hstate[op.h] = "Open" /\ ~heap[files[op.h]].seekable) =>
              result = Err(errCodes(EnoSeek), "'ov_pcm_seek()'")

C16_Witness ==
  /\ op.name = "PcmSeek"
  /\ hstate[op.h] = "Open"
  /\ ~heap[files[op.h]].seekable
  /\ result.kind = "err"
  /\ result.code = "EnoSeek"

\* The names under which an operation may appear in its own error: its Go
\* name or the name of its native function, bare, with "()", or quoted.
OwnNames(name) ==
  LET base == {name, NativeFn(name)}
  IN UNION { {b, b \o "()", "'" \o b \o "'", "'" \o b \o "()'"} : b \in base }

\* C17: the error returned by a failing Fopen, Clear, Read, PcmSeek,
\* PcmTotal, TimeTotal or TimeTell names that operation or its own native
\* function.
C17_ErrorNamesOperation ==
  ( /\ op.name \in {"Fopen", "Clear", "Read", "PcmSeek", "PcmTotal", "TimeTotal", "TimeTell"}
    /\ result.kind = "err" ) =>
     result.from \in OwnNames(op.name)

\* Whether native result ret of the operation's native function is a failure.
NativeFailed(name, ret) ==
  CASE name \in {"Load", "Fopen", "Clear", "PcmSeek"}             -> ret # 0
    [] name \in {"Read", "PcmTotal", "TimeTotal", "TimeTell"}     -> ret < 0
    [] name = "Info"                                              -> ret = NULL
    [] OTHER                                                      -> FALSE

\* C18: every call of Load, Fopen, Clear, Read, Info, Seekable, PcmSeek,
\* PcmTotal, TimeTotal or TimeTell invokes its native function at most once,
\* and when that invocation fails the call returns an error.
C18_NoInternalRetry ==
  /\ Cardinality(OwnCalls) <= 1
  /\ \A i \in OwnCalls :
        (NativeFailed(op.name, calls[i].ret) /\ result.kind # "crash") =>
           result.kind = "err"

C18_Witness ==
  /\ op.name = "Read"
  /\ hstate[op.h] = "Open"
  /\ result.kind = "err"
  /\ Len(calls) = 1
  /\ calls[1].ret < 0

\* The native functions that are passed a reference to C memory.
PtrFns ==
  {"ov_fopen", "ov_clear", "ov_read", "ov_info", "ov_seekable", "ov_pcm_seek",
   "ov_pcm_total", "ov_time_total", "ov_time_tell", "free"}

\* Whether reference p is a live allocation when call i of cs is made from
\* a state whose heap is hp: allocated before the call or earlier in it,
\* and not released earlier in it.
LiveAt(hp, cs, i, p) ==
  /\ \/ p \in 1..Len(hp) /\ hp[p].live
     \/ \E j \in 1..(i - 1) : cs[j].fn \in {"malloc", "CString"} /\ cs[j].ret = p
  /\ ~\E j \in 1..(i - 1) : cs[j].fn = "free" /\ cs[j].arg = p

\* C19: the reference passed to a native function by any call is null or an
\* allocation that is live at that moment, never a released one.
C19_NoDanglingReference ==
  [][ \A i \in 1..Len(calls') :
        calls'[i].fn \in PtrFns =>
           \/ calls'[i].arg = NULL
           \/ LiveAt(heap, calls', i, calls'[i].arg) ]_vars

C19_Witness ==
  /\ op.name = "PcmTotal"
  /\ hstate[op.h] = "Closed"
  /\ calls[1].arg = NULL
  /\ \E a \in 1..Len(heap) : heap[a].kind = "vf" /\ ~heap[a].live

\* C20: an Info call never changes a handle's reference, its lifecycle
\* state, the heap or the loaded flag; when the native library returns no
\* record it returns an error and leaves the caller's VorbisInfo as it was;
\* when it returns a record, all seven fields are taken from that record.
C20_InfoReadOnlyAllOrNothing ==
  [][ op'.name = "Info" =>
        /\ files' = files
        /\ hstate' = hstate
        /\ heap' = heap
        /\ loaded' = loaded
        /\ (result'.kind \in {"err", "panic", "crash"}) => info' = info
        /\ (result'.kind \notin {"panic", "crash"} /\ calls'[1].ret = NULL) =>
              result'.kind = "err"
        /\ result'.kind = "ok" =>
              \E vi \in NativeInfos :
                 /\ vi.version = calls'[1].ret
                 /\ info'.Version = vi.version
                 /\ info'.Channels = vi.channels
                 /\ info'.Rate = vi.rate
                 /\ info'.BitrateUpper = vi.bitrate_upper
                 /\ info'.BitrateNominal = vi.bitrate_nominal
                 /\ info'.BitrateLower = vi.bitrate_lower
                 /\ info'.BitrateWindow = vi.bitrate_window ]_vars

C20_Witness ==
  /\ op.name = "Info"
  /\ hstate[op.h] = "Open"
  /\ result.kind = "err"
  /\ info.Version = 11
  /\ info.BitrateWindow = 17

====
